---- MODULE Spec2Model ----
(***************************************************************************)
(* evm-chains: the lazily built catalog CHAINS (src/lib.rs 14-58), the     *)
(* lookup Chain::get (97-99) and the decoder Chain::from_file (88-95).     *)
(*                                                                         *)
(* Text is a sequence of one-character strings.  A u64 is the sequence of  *)
(* its decimal digits (numbers 0..9), most significant first, without      *)
(* leading zeros; zero is the empty sequence.  This keeps the full 64-bit  *)
(* range, which the model checker's own integers cannot hold.              *)
(***************************************************************************)
EXTENDS Naturals, Sequences, FiniteSets

VARIABLES
    dir,        \* the entries of ethereum-list/chains/_data/chains/ (static)
    listable,   \* whether std::fs::read_dir on it succeeds
    lazy,       \* state of the Lazy cell: Uninit, Building, Ready, Poisoned
    CHAINS,     \* value held by the Lazy cell: None or Some(map)
    chains,     \* the builder's local `chains` map (set of key/value pairs)
    todo,       \* entries the read_dir iterator has not yielded yet
    builds,     \* how many times the initialising closure has been entered
    panicMsg,   \* message of the panic that ended the build ("" if none)
    panicEntry, \* the directory entry being processed when the build panicked
    pc,         \* per thread: idle, get, listing, building, waiting, done,
                \* panicked
    arg,        \* per thread: the chain_id passed to Chain::get
    ret,        \* per thread: the Option<Chain> that Chain::get returned
    held,       \* per thread: the caller's value, which the caller may mutate
    view,       \* per thread: the value of CHAINS the lookup dereferenced
    calls,      \* number of Chain::get calls started so far
    ffret       \* result of the last direct Chain::from_file call

vars == <<dir, listable, lazy, CHAINS, chains, todo, builds, panicMsg,
          panicEntry, pc, arg, ret, held, view, calls, ffret>>

(***************************************************************************)
(* Bounds of the model.                                                    *)
(***************************************************************************)
MaxEntries == 3
MaxCalls == 2

Threads == {"t1", "t2"}

None == [some |-> FALSE]
Some(x) == [some |-> TRUE, v |-> x]

(***************************************************************************)
(* u64 and its text form.                                                  *)
(***************************************************************************)
DigitChars == <<"0", "1", "2", "3", "4", "5", "6", "7", "8", "9">>

U64_MAX == <<1,8,4,4,6,7,4,4,0,7,3,7,0,9,5,5,1,6,1,5>>

\* char::to_digit(10)
ToDigit(c) ==
    IF \E d \in 0..9 : DigitChars[d + 1] = c
    THEN Some(CHOOSE d \in 0..9 : DigitChars[d + 1] = c)
    ELSE None

RECURSIVE LexLeq(_, _)
LexLeq(a, b) ==
    IF a = <<>> THEN TRUE
    ELSE IF Head(a) # Head(b) THEN Head(a) < Head(b)
    ELSE LexLeq(Tail(a), Tail(b))

\* whether a digit sequence is at most u64::MAX
Fits(n) ==
    \/ Len(n) < Len(U64_MAX)
    \/ Len(n) = Len(U64_MAX) /\ LexLeq(n, U64_MAX)

\* u64::checked_mul(10)
CheckedMul10(n) ==
    LET r == IF n = <<>> THEN <<>> ELSE Append(n, 0)
    IN  IF Fits(r) THEN Some(r) ELSE None

RECURSIVE AddSmall(_, _)
AddSmall(n, d) ==
    IF d = 0 THEN n
    ELSE IF n = <<>> THEN <<d>>
    ELSE LET s == n[Len(n)] + d
         IN  Append(AddSmall(SubSeq(n, 1, Len(n) - 1), s \div 10), s % 10)

\* u64::checked_add(d) for a digit d
CheckedAdd(n, d) ==
    LET r == AddSmall(n, d)
    IN  IF Fits(r) THEN Some(r) ELSE None

RECURSIVE Accumulate(_, _)
Accumulate(cs, acc) ==
    IF cs = <<>> THEN Some(acc)
    ELSE LET d == ToDigit(Head(cs))
         IN  IF ~d.some THEN None
             ELSE LET m == CheckedMul10(acc)
                  IN  IF ~m.some THEN None
                      ELSE LET a == CheckedAdd(m.v, d.v)
                           IN  IF ~a.some THEN None
                               ELSE Accumulate(Tail(cs), a.v)

\* str::parse::<u64>(): Some(value) for Ok, None for Err
ParseU64(s) ==
    IF s = <<>> THEN None
    ELSE IF s = <<"+">> \/ s = <<"-">> THEN None
    ELSE Accumulate(IF Head(s) = "+" THEN Tail(s) ELSE s, <<>>)

\* format!("{}", chain_id) for a u64
RECURSIVE FormatDigits(_)
FormatDigits(n) ==
    IF n = <<>> THEN <<>>
    ELSE <<DigitChars[Head(n) + 1]>> \o FormatDigits(Tail(n))

FormatU64(n) == IF n = <<>> THEN <<"0">> ELSE FormatDigits(n)

(***************************************************************************)
(* File names.                                                             *)
(***************************************************************************)
Prefix == <<"e", "i", "p", "1", "5", "5", "-">>
Suffix == <<".", "j", "s", "o", "n">>

\* str::strip_prefix
StripPrefix(s, p) ==
    IF Len(s) >= Len(p) /\ SubSeq(s, 1, Len(p)) = p
    THEN Some(SubSeq(s, Len(p) + 1, Len(s)))
    ELSE None

\* str::strip_suffix
StripSuffix(s, p) ==
    IF Len(s) >= Len(p) /\ SubSeq(s, Len(s) - Len(p) + 1, Len(s)) = p
    THEN Some(SubSeq(s, 1, Len(s) - Len(p)))
    ELSE None

\* file_name.strip_prefix("eip155-").and_then(|f| f.strip_suffix(".json"))
StripName(file_name) ==
    LET a == StripPrefix(file_name, Prefix)
    IN  IF a.some THEN StripSuffix(a.v, Suffix) ELSE None

\* the file name part of the path that from_file builds
FilePath(chain_id) == Prefix \o FormatU64(chain_id) \o Suffix

(***************************************************************************)
(* The data directory.  An entry is what read_dir yields:                  *)
(*   stat    "ok", or "entry_err" (the iterator yields Err), or "type_err"  *)
(*           (DirEntry::file_type fails)                                   *)
(*   unicode whether OsString::into_string succeeds on the file name       *)
(*   kind    "file", "dir" or "symlink", as DirEntry::file_type reports    *)
(*           (it does not follow symbolic links)                           *)
(*   io      what File::open and reading the path do (following links):    *)
(*           "ok", "open_err" (permission denied), "read_err" (I/O fault   *)
(*           while reading, e.g. EISDIR)                                   *)
(*   doc     Some(record) when the bytes deserialize into a Chain, None    *)
(*           when they are not JSON or not of the record's shape           *)
(***************************************************************************)
Chain(name, chain_id) == [name |-> name, chain_id |-> chain_id]

Entry(name, kind, io, doc) ==
    [name |-> name, unicode |-> TRUE, stat |-> "ok", kind |-> kind,
     io |-> io, doc |-> doc]

Named(mid) == Prefix \o mid \o Suffix

One == <<1>>
Two == <<2>>

Pool ==
    { Entry(Named(<<"1">>), "file", "ok", Some(Chain("Ethereum Mainnet", One))),
      Entry(Named(<<"1">>), "file", "ok", Some(Chain("Mislabelled", Two))),
      Entry(Named(<<"1">>), "symlink", "ok", Some(Chain("Link Target", One))),
      Entry(Named(<<"0", "1">>), "file", "ok", Some(Chain("Leading Zero", One))),
      Entry(Named(<<"+", "1">>), "file", "ok", Some(Chain("Plus Sign", One))),
      Entry(Named(<<"2">>), "file", "ok", Some(Chain("Expanse Network", Two))),
      Entry(Named(<<"2">>), "file", "ok", None),
      Entry(Named(<<"2">>), "file", "open_err", None),
      Entry(Named(<<"2">>), "file", "read_err", None),
      Entry(Named(<<"2">>), "dir", "read_err", None),
      Entry(Named(FormatU64(U64_MAX)), "file", "ok", Some(Chain("Max", U64_MAX))),
      Entry(Named(FormatU64(SubSeq(U64_MAX, 1, 19) \o <<6>>)), "file", "ok", None),
      Entry(Named(<<"x">>), "file", "ok", None),
      Entry(Prefix \o <<"1">> \o <<".", "t", "x", "t">>, "file", "ok", None),
      Entry(<<"c", "h", "a", "i", "n", "-", "1">> \o Suffix, "file", "ok", None),
      Entry(<<"i", "c", "o", "n", "s">>, "dir", "read_err", None),
      [Entry(<<"?">>, "dir", "read_err", None) EXCEPT !.unicode = FALSE],
      [Entry(<<"?", "?">>, "file", "ok", None) EXCEPT !.unicode = FALSE],
      [Entry(<<>>, "file", "ok", None) EXCEPT !.stat = "entry_err"],
      [Entry(<<"s", "t", "a", "l", "e">>, "file", "ok", None)
          EXCEPT !.stat = "type_err"] }

RECURSIVE SubsetsUpTo(_, _)
SubsetsUpTo(S, n) ==
    IF n = 0 THEN {{}}
    ELSE LET prev == SubsetsUpTo(S, n - 1)
         IN  prev \cup {s \cup {e} : s \in prev, e \in S}

\* a directory holds no two entries of the same name
Dirs ==
    {d \in SubsetsUpTo(Pool, MaxEntries) :
        \A e1, e2 \in d :
            (e1.name = e2.name /\ e1.unicode = e2.unicode) => e1 = e2}

GetIds == {One, Two}

(***************************************************************************)
(* Chain::from_file (88-95) with error::open_file / error::deserialize.    *)
(***************************************************************************)
Ok(x) == [ok |-> TRUE, v |-> x]
Err(kind, source) == [ok |-> FALSE, kind |-> kind, source |-> source]

\* error::open_file (178-180)
open_file(error) == Err("File", error)

\* error::deserialize (182-184)
deserialize(error) == Err("Json", error)

\* the entry a path names, if any
Resolve(d, path) ==
    {e \in d : e.stat # "entry_err" /\ e.unicode /\ e.name = path}

\* serde_json::from_reader on an opened file
from_reader(e) ==
    IF e.io = "read_err" THEN Err("serde", "Io")
    ELSE IF ~e.doc.some THEN Err("serde", "Syntax or Data")
    ELSE Ok(e.doc.v)

from_file(d, chain_id) ==
    LET found == Resolve(d, FilePath(chain_id))
    IN  IF found = {} THEN open_file("NotFound")
        ELSE LET e == CHOOSE x \in found : TRUE
             IN  IF e.io = "open_err" THEN open_file("PermissionDenied")
                 ELSE LET r == from_reader(e)
                      IN  IF r.ok THEN r ELSE deserialize(r.source)

(***************************************************************************)
(* The HashMap under construction: a set of key/value pairs, keys unique.  *)
(***************************************************************************)
\* a lookup that ignores the key
HashMapGetAny(map, k) ==
    IF map # {} THEN Some((CHOOSE p \in map : TRUE).v) ELSE None

\* HashMap::get
HashMapGet(map, k) ==
    IF \E p \in map : p.k = k
    THEN Some((CHOOSE p \in map : p.k = k).v)
    ELSE None

\* HashMap::insert: the new map and the value the key had before
HashMapInsert(map, k, v) ==
    [map |-> {p \in map : p.k # k} \cup {[k |-> k, v |-> v]},
     old |-> HashMapGet(map, k)]

\* an insertion whose previous value is not looked at
NeverDuplicate(old) == FALSE

\* `chains.insert(chain_id, chain).is_some()` (52)
IsDuplicate(old) == old.some

(***************************************************************************)
(* One iteration of the loop over the directory entries (20-55).           *)
(***************************************************************************)
Panic(msg) == [kind |-> "panic", msg |-> msg]
Continue == [kind |-> "continue"]
Inserted(map) == [kind |-> "inserted", map |-> map]

LoopBody(d, map, e) ==
    IF e.stat = "entry_err"
    THEN Panic("Failed to read directory entry from chains data directory")
    ELSE IF e.stat = "type_err"
    THEN Panic("Failed to get the type of file entry in the chains data directory")
    ELSE IF ~e.unicode
    THEN Panic("Chain file name should contain valid Unicode string")
    ELSE IF e.kind # "file"
    THEN Continue
    ELSE LET stripped == StripName(e.name)
         IN  IF ~stripped.some
             THEN Panic("Chain file name was in incorrect form, expected: eip-155-CHAIN_ID.json")
             ELSE LET chain_id == ParseU64(stripped.v)
                  IN  IF ~chain_id.some
                      THEN Panic("Chain id in file name should be a valid u64")
                      ELSE LET chain == from_file(d, chain_id.v)
                           IN  IF ~chain.ok
                               THEN Panic("Failed to read/deserialize chain file")
                               ELSE LET ins == HashMapInsert(map, chain_id.v, chain.v)
                                    IN  IF IsDuplicate(ins.old)
                                        THEN Panic("Duplicate Chain id")
                                        ELSE Inserted(ins.map)

(***************************************************************************)
(* The Lazy cell (14) and Chain::get (97-99).                              *)
(*                                                                         *)
(* once_cell's Lazy runs its closure for the first thread that forces it   *)
(* while the others block; the closure is taken out of the cell when it is *)
(* run, so after a panic in it the cell is poisoned and forcing it panics. *)
(***************************************************************************)
\* a cell that runs its closure again after a panic
CanInitializeAgain(state) == state \in {"Uninit", "Poisoned"}

\* whether forcing the cell runs the initialising closure
CanInitialize(state) == state = "Uninit"

\* a cell that hands out its value while it is still being built
IsCompleteEarly(state) == state \in {"Building", "Ready"}

\* whether forcing the cell yields the stored value
IsComplete(state) == state = "Ready"

\* a lookup that hands out the catalog's own record
borrowed(opt) == [own |-> FALSE, val |-> opt]

\* Option<&Chain>::cloned(): the caller owns an independent copy
cloned(opt) == [own |-> TRUE, val |-> opt]

NoValue == [own |-> TRUE, val |-> None]

Init ==
    /\ listable \in BOOLEAN
    /\ dir \in (IF listable THEN Dirs ELSE {{}})
    /\ lazy = "Uninit"
    /\ CHAINS = None
    /\ chains = {}
    /\ todo = {}
    /\ builds = 0
    /\ panicMsg = ""
    /\ panicEntry = None
    /\ pc = [t \in Threads |-> "idle"]
    /\ arg = [t \in Threads |-> One]
    /\ ret = [t \in Threads |-> None]
    /\ held = [t \in Threads |-> NoValue]
    /\ view = [t \in Threads |-> None]
    /\ calls = 0
    /\ ffret = None

\* a caller enters Chain::get(chain_id)
CallGet(t, chain_id) ==
    /\ pc[t] = "idle"
    /\ calls < MaxCalls
    /\ pc' = [pc EXCEPT ![t] = "get"]
    /\ arg' = [arg EXCEPT ![t] = chain_id]
    /\ calls' = calls + 1
    /\ UNCHANGED <<dir, listable, lazy, CHAINS, chains, todo, builds,
                   panicMsg, panicEntry, ret, held, view, ffret>>

\* the first dereference of CHAINS enters the closure: `chains` is new (15)
BuildStart(t) ==
    /\ pc[t] = "get"
    /\ CanInitialize(lazy)
    /\ lazy' = "Building"
    /\ builds' = builds + 1
    /\ chains' = {}
    /\ pc' = [pc EXCEPT ![t] = "listing"]
    /\ UNCHANGED <<dir, listable, CHAINS, todo, panicMsg, panicEntry, arg,
                   ret, held, view, calls, ffret>>

\* std::fs::read_dir(..).expect(..) (17-18)
ReadDir(t) ==
    /\ pc[t] = "listing"
    /\ IF listable
       THEN /\ todo' = dir
            /\ pc' = [pc EXCEPT ![t] = "building"]
            /\ UNCHANGED <<lazy, panicMsg>>
       ELSE /\ lazy' = "Poisoned"
            /\ panicMsg' = "Directory should be readable"
            /\ pc' = [pc EXCEPT ![t] = "panicked"]
            /\ UNCHANGED todo
    /\ UNCHANGED <<dir, listable, CHAINS, chains, builds, panicEntry, arg,
                   ret, held, view, calls, ffret>>

\* a caller that forces the cell while another thread builds it blocks
Wait(t) ==
    /\ pc[t] = "get"
    /\ lazy = "Building"
    /\ pc' = [pc EXCEPT ![t] = "waiting"]
    /\ UNCHANGED <<dir, listable, lazy, CHAINS, chains, todo, builds,
                   panicMsg, panicEntry, arg, ret, held, view, calls, ffret>>

\* one iteration of the loop, on whichever entry read_dir yields next
BuildStep(t) ==
    /\ pc[t] = "building"
    /\ \E e \in todo :
         LET out == LoopBody(dir, chains, e)
         IN  /\ todo' = todo \ {e}
             /\ IF out.kind = "panic"
                THEN /\ lazy' = "Poisoned"
                     /\ panicMsg' = out.msg
                     /\ panicEntry' = Some(e)
                     /\ pc' = [pc EXCEPT ![t] = "panicked"]
                     /\ chains' = {}
                ELSE /\ chains' = IF out.kind = "inserted" THEN out.map ELSE chains
                     /\ UNCHANGED <<lazy, panicMsg, panicEntry, pc>>
    /\ UNCHANGED <<dir, listable, CHAINS, builds, arg, ret, held, view,
                   calls, ffret>>

\* the loop is over: the closure returns `chains` and the cell stores it (57)
BuildFinish(t) ==
    /\ pc[t] = "building"
    /\ todo = {}
    /\ CHAINS' = Some(chains)
    /\ chains' = {}
    /\ lazy' = "Ready"
    /\ pc' = [pc EXCEPT ![t] = "get"]
    /\ UNCHANGED <<dir, listable, todo, builds, panicMsg, panicEntry, arg,
                   ret, held, view, calls, ffret>>

\* CHAINS.get(&chain_id).cloned() on the initialised cell (98)
Lookup(t) ==
    /\ pc[t] \in {"get", "waiting"}
    /\ IsComplete(lazy)
    /\ LET found == IF CHAINS.some THEN HashMapGet(CHAINS.v, arg[t]) ELSE None
       IN  /\ ret' = [ret EXCEPT ![t] = found]
           /\ held' = [held EXCEPT ![t] = cloned(found)]
    /\ view' = [view EXCEPT ![t] = CHAINS]
    /\ pc' = [pc EXCEPT ![t] = "done"]
    /\ UNCHANGED <<dir, listable, lazy, CHAINS, chains, todo, builds,
                   panicMsg, panicEntry, arg, calls, ffret>>

\* forcing the poisoned cell panics in the calling thread
PoisonedPanic(t) ==
    /\ pc[t] \in {"get", "waiting"}
    /\ lazy = "Poisoned"
    /\ pc' = [pc EXCEPT ![t] = "panicked"]
    /\ UNCHANGED <<dir, listable, lazy, CHAINS, chains, todo, builds,
                   panicMsg, panicEntry, arg, ret, held, view, calls, ffret>>

\* the caller changes the record it was returned
Mutate(t) ==
    /\ pc[t] = "done"
    /\ held[t].val.some
    /\ held[t].val.v.name # "changed by caller"
    /\ LET changed == [held[t].val.v EXCEPT !.name = "changed by caller"]
       IN  /\ held' = [held EXCEPT ![t].val = Some(changed)]
           /\ IF held[t].own
              THEN UNCHANGED CHAINS
              ELSE CHAINS' = Some(HashMapInsert(CHAINS.v, arg[t], changed).map)
    /\ UNCHANGED <<dir, listable, lazy, chains, todo, builds, panicMsg,
                   panicEntry, pc, arg, ret, view, calls, ffret>>

\* the caller drops the result and may call again
Return(t) ==
    /\ pc[t] = "done"
    /\ calls < MaxCalls
    /\ pc' = [pc EXCEPT ![t] = "idle"]
    /\ ret' = [ret EXCEPT ![t] = None]
    /\ held' = [held EXCEPT ![t] = NoValue]
    /\ view' = [view EXCEPT ![t] = None]
    /\ UNCHANGED <<dir, listable, lazy, CHAINS, chains, todo, builds,
                   panicMsg, panicEntry, arg, calls, ffret>>

Next ==
    \E t \in Threads :
        \/ \E chain_id \in GetIds : CallGet(t, chain_id)
        \/ BuildStart(t)
        \/ ReadDir(t)
        \/ Wait(t)
        \/ BuildStep(t)
        \/ BuildFinish(t)
        \/ Lookup(t)
        \/ PoisonedPanic(t)
        \/ Mutate(t)
        \/ Return(t)

Spec == Init /\ [][Next]_vars

(***************************************************************************)
(* Direct calls of the public Chain::from_file.                            *)
(***************************************************************************)
CallFromFile(chain_id) ==
    /\ ffret' = Some([chain_id |-> chain_id, result |-> from_file(dir, chain_id)])
    /\ UNCHANGED <<dir, listable, lazy, CHAINS, chains, todo, builds,
                   panicMsg, panicEntry, pc, arg, ret, held, view, calls>>

NextFile == \E chain_id \in GetIds \cup {<<>>, U64_MAX} : CallFromFile(chain_id)

SpecFile == Init /\ [][NextFile]_vars

(***************************************************************************)
(* Vocabulary of the properties.                                           *)
(***************************************************************************)
RegularFiles(d) == {e \in d : e.stat = "ok" /\ e.kind = "file"}

NonFiles(d) == {e \in d : e.stat = "ok" /\ e.kind # "file"}

AllDigits(s) == s # <<>> /\ \A i \in 1..Len(s) : ToDigit(s[i]).some

RECURSIVE DropZeros(_)
DropZeros(n) ==
    IF n # <<>> /\ Head(n) = 0 THEN DropZeros(Tail(n)) ELSE n

\* the number a string of decimal digits denotes
NumValue(s) == DropZeros([i \in 1..Len(s) |-> ToDigit(s[i]).v])

\* the name is eip155-<digits>.json with the digits in u64 range
MatchesPattern(e) ==
    /\ e.unicode
    /\ LET m == StripName(e.name)
       IN  m.some /\ AllDigits(m.v) /\ Fits(NumValue(m.v))

\* the chain id a matching name encodes
EncodedId(e) == NumValue(StripName(e.name).v)

\* the name is exactly eip155-<chain_id>.json, the id in its natural form
Canonical(e) == MatchesPattern(e) /\ e.name = FilePath(EncodedId(e))

\* the chain ids encoded in the names of the files of the directory
FileIds(d) == {EncodedId(e) : e \in {x \in RegularFiles(d) : MatchesPattern(x)}}

\* the chain ids encoded in the name of any entry of the directory
NameIds(d) ==
    {EncodedId(e) : e \in {x \in d : x.stat # "entry_err" /\ MatchesPattern(x)}}

\* one readable, decodable file per chain, named by the convention
WellFormed ==
    /\ listable
    /\ \A e \in dir :
         /\ e.stat = "ok" /\ e.kind = "file"
         /\ Canonical(e)
         /\ e.io = "ok" /\ e.doc.some

\* the id the build reads out of a regular file's name, if it reads one
BuildKey(e) ==
    IF e.unicode /\ StripName(e.name).some
    THEN ParseU64(StripName(e.name).v)
    ELSE None

HasDuplicateIds(d) ==
    \E e1, e2 \in RegularFiles(d) :
        e1 # e2 /\ BuildKey(e1).some /\ BuildKey(e1) = BuildKey(e2)

\* the mapping a build of the directory is to produce
Catalog(d) ==
    {[k |-> BuildKey(e).v, v |-> from_file(d, BuildKey(e).v).v] :
        e \in {x \in RegularFiles(d) :
                 BuildKey(x).some /\ from_file(d, BuildKey(x).v).ok}}

(***************************************************************************)
(* C1: after a successful build, get(k) for every chain id k encoded in    *)
(* the name of a file of the data directory returns Some(record), and the  *)
(* record's chain_id field equals k.                                       *)
(***************************************************************************)
C1_GetReturnsRequestedId ==
    \A t \in Threads :
        (pc[t] = "done" /\ arg[t] \in FileIds(dir)) =>
            (ret[t].some /\ ret[t].v.chain_id = arg[t])

(***************************************************************************)
(* C2: however first-time callers of get interleave, the build runs once,  *)
(* and every caller that gets a result has read the whole catalog of the   *)
(* directory, never a partly filled one.                                   *)
(***************************************************************************)
C2_BuiltOnceAndWhole ==
    /\ builds <= 1
    /\ \A t \in Threads :
         pc[t] = "done" => (builds = 1 /\ view[t] = Some(Catalog(dir)))

C2_Witness ==
    \E t1, t2 \in Threads :
        /\ pc[t1] = "done" /\ pc[t2] = "waiting"
        /\ view[t1].some /\ Cardinality(view[t1].v) >= 2

(***************************************************************************)
(* C3: for a well-formed data directory, get(k) for an id k that no name   *)
(* in the directory encodes returns None, and nothing panics.              *)
(***************************************************************************)
C3_AbsentIdIsNone ==
    WellFormed =>
        /\ lazy # "Poisoned"
        /\ \A t \in Threads :
             /\ pc[t] # "panicked"
             /\ (pc[t] = "done" /\ arg[t] \notin NameIds(dir)) => ret[t] = None

C3_Witness ==
    /\ WellFormed
    /\ dir # {}
    /\ \E t \in Threads :
         pc[t] = "done" /\ arg[t] \notin NameIds(dir) /\ ret[t] = None

C5_MalformedNameIsFatal ==
    (\E e \in RegularFiles(dir) : ~MatchesPattern(e)) => lazy # "Ready"

(***************************************************************************)
(* C6: from_file(chain_id) fails with a File error whenever the file       *)
(* eip155-<chain_id>.json cannot be opened or read, and with a             *)
(* Deserialization error exactly when its bytes were read but do not       *)
(* deserialize.                                                            *)
(***************************************************************************)
C6_ErrorKinds ==
    ffret.some =>
        LET r == ffret.v.result
            target == Resolve(dir, FilePath(ffret.v.chain_id))
            unopened == target = {} \/ \E e \in target : e.io = "open_err"
            unread == \E e \in target : e.io = "read_err"
            undecoded == \E e \in target : e.io = "ok" /\ ~e.doc.some
        IN  /\ (unopened \/ unread) => (~r.ok /\ r.kind = "File")
            /\ (~r.ok /\ r.kind = "Json") <=> undecoded

(***************************************************************************)
(* C7: once the catalog is Ready it stays Ready and its mapping never      *)
(* changes, whatever callers do with the records they were returned; two   *)
(* get calls for the same id return equal records.                         *)
(***************************************************************************)
C7_ReadyCatalogNeverChanges ==
    [][/\ lazy = "Ready" => (lazy' = "Ready" /\ CHAINS' = CHAINS)
       /\ \A t1, t2 \in Threads :
            (pc'[t1] = "done" /\ pc'[t2] = "done" /\ arg'[t1] = arg'[t2])
                => ret'[t1] = ret'[t2]]_vars

C7_Witness ==
    \E t1, t2 \in Threads :
        /\ t1 # t2
        /\ pc[t1] = "done" /\ pc[t2] = "done" /\ arg[t1] = arg[t2]
        /\ ret[t1].some /\ ret[t2] = ret[t1]
        /\ held[t1].val # ret[t1]
        /\ held[t2].val # ret[t2]

(***************************************************************************)
(* C8: an entry of the directory that is not a regular file never aborts   *)
(* the build and never contributes a key, whatever its name is.            *)
(***************************************************************************)
C8_NonFilesIgnored ==
    /\ panicEntry.some => panicEntry.v \notin NonFiles(dir)
    /\ CHAINS.some =>
         \A p \in CHAINS.v :
             \E e \in RegularFiles(dir) : BuildKey(e) = Some(p.k)

(***************************************************************************)
(* C9: the cell only moves Uninit -> Building -> Ready, or out of Building *)
(* by a fatal condition; the closure is entered at most once; after a      *)
(* fatal condition no get call runs the build again, makes the cell Ready, *)
(* stores a value in it or returns a result.                               *)
(***************************************************************************)
C9_LifecycleNoRetry ==
    [][/\ lazy' # lazy =>
            <<lazy, lazy'>> \in {<<"Uninit", "Building">>,
                                 <<"Building", "Ready">>,
                                 <<"Building", "Poisoned">>}
       /\ builds' <= 1
       /\ lazy = "Poisoned" =>
            /\ lazy' = "Poisoned"
            /\ builds' = builds
            /\ CHAINS' = None
            /\ \A t \in Threads : pc'[t] # "done"]_vars

C9_Witness ==
    /\ lazy = "Poisoned"
    /\ builds = 1
    /\ calls = MaxCalls
    /\ \A t \in Threads : pc[t] = "panicked"

(***************************************************************************)
(* C10: whenever the build reaches Ready, every key k of the catalog maps  *)
(* to the record decoded from the regular file whose name produced k.      *)
(***************************************************************************)
C10_KeyHoldsItsOwnFile ==
    lazy = "Ready" =>
        \A p \in CHAINS.v :
            \E e \in RegularFiles(dir) :
                BuildKey(e) = Some(p.k) /\ e.doc = Some(p.v)

====
